---- MODULE Spec2Model ----
(***************************************************************************)
(* Market-pulse dashboard: src/app.py (Streamlit script: form, validation, *)
(* initial fetch, live-refresh loop) and src/src/utils.py (get_stock_data, *)
(* calculate_moving_averages, plot_price_with_ma).                         *)
(*                                                                         *)
(* Python objects live in `store` (object id -> DataFrame); the script's   *)
(* names df / df_with_ma hold object ids, so that aliasing (df_with_ma =   *)
(* df) and copying (df.copy()) are different things, as in the code.       *)
(***************************************************************************)
EXTENDS Integers, Sequences, FiniteSets, TLC

(***************************************************************************)
(* Bounds of the model.                                                    *)
(***************************************************************************)
MaxLen == 4          \* rows of a table given to the pure functions
MaxPrice == 2        \* Close prices 1..MaxPrice given to calculate_moving_averages
MaxWindow == 3       \* window sizes 1..MaxWindow given to calculate_moving_averages
MaxRows == 2         \* rows of a table the provider returns to the application
MaxCount == 2        \* the event counters and update_count saturate here

(***************************************************************************)
(* Numbers.  A cell of a table is a float: NaN, -inf, an exact rational    *)
(* num/den in lowest terms, or log10 of a rational that has no rational    *)
(* logarithm (kept as the term log10(num/den)).                            *)
(***************************************************************************)
RECURSIVE GCD(_, _)
GCD(a, b) == IF b = 0 THEN a ELSE GCD(b, a % b)

Abs(n) == IF n < 0 THEN -n ELSE n

NaN == [k |-> "nan", num |-> 0, den |-> 0]

NegInf == [k |-> "-inf", num |-> 0, den |-> 0]

Rat(n, d) ==
    LET g == GCD(Abs(n), d)
    IN  [k |-> "rat", num |-> n \div g, den |-> d \div g]

Num(n) == Rat(n, 1)

IsMissing(v) == v.k = "nan"

RatAdd(a, b) == Rat(a.num * b.den + b.num * a.den, a.den * b.den)

RECURSIVE Pow10(_)
Pow10(e) == IF e = 0 THEN 1 ELSE 10 * Pow10(e - 1)

\* the exponent e with 10^e = n, or -1 when n is no power of ten
RECURSIVE ExactLog10(_)
ExactLog10(n) ==
    IF n = 1 THEN 0
    ELSE IF n < 10 \/ n % 10 # 0 THEN -1
    ELSE LET e == ExactLog10(n \div 10) IN IF e < 0 THEN -1 ELSE e + 1

\* numpy.log10 on one cell
Log10(v) ==
    IF v.k # "rat" THEN NaN
    ELSE IF v.num < 0 THEN NaN
    ELSE IF v.num = 0 THEN NegInf
    ELSE IF v.den = 1 /\ ExactLog10(v.num) >= 0 THEN Num(ExactLog10(v.num))
    ELSE IF v.num = 1 /\ ExactLog10(v.den) >= 0 THEN Num(-ExactLog10(v.den))
    ELSE [k |-> "log10", num |-> v.num, den |-> v.den]

\* numpy.log10 on a column
Log10Series(s) == [i \in 1..Len(s) |-> Log10(s[i])]

(***************************************************************************)
(* DataFrames: a function from column name to the column (a sequence of    *)
(* cells); every column has the same length.                               *)
(***************************************************************************)
BaseColumns == {"Open", "High", "Low", "Close", "Volume"}

NRows(t) == Len(t["Close"])

IsEmpty(t) == NRows(t) = 0

\* df[name] = series
SetColumn(t, name, series) ==
    [c \in DOMAIN t \cup {name} |-> IF c = name THEN series ELSE t[c]]

\* f'MA{window}'
MAName(window) == "MA" \o ToString(window)

RECURSIVE SumRange(_, _, _)
SumRange(s, lo, hi) ==
    IF lo > hi THEN Num(0) ELSE RatAdd(s[hi], SumRange(s, lo, hi - 1))

\* rolling(window, min_periods=1): the mean of the rows there are
RollingMeanMinPeriods1(s, window) ==
    [i \in 1..Len(s) |->
        LET lo == IF i < window THEN 1 ELSE i - window + 1
            sum == SumRange(s, lo, i)
        IN  Rat(sum.num, sum.den * (i - lo + 1))]

\* Series.rolling(window=window).mean(): min_periods defaults to the window
RollingMean(s, window) ==
    [i \in 1..Len(s) |->
        IF i < window THEN NaN
        ELSE IF \E j \in (i - window + 1)..i : IsMissing(s[j]) THEN NaN
        ELSE LET sum == SumRange(s, i - window + 1, i)
             IN  Rat(sum.num, sum.den * window)]

(***************************************************************************)
(* The object store.                                                       *)
(***************************************************************************)
NoRef == 0

\* F applied to the value of x, x being evaluated once (a local name of the code)
With(x, F(_)) == CHOOSE y \in {F(v) : v \in {x}} : TRUE

NewRef(st) == CHOOSE r \in 1..(Cardinality(DOMAIN st) + 1) : r \notin DOMAIN st

Put(st, r, t) == [x \in DOMAIN st \cup {r} |-> IF x = r THEN t ELSE st[x]]

\* reference counting: objects no name refers to are freed
Collect(st, live) == [x \in DOMAIN st \cap live |-> st[x]]

\* df_copy = df: the same object under a second name
DfAlias(st, r) == <<st, r>>

\* df.copy(): a new object with the same cells; <<store, ref>>
DfCopy(st, r) == With(NewRef(st), LAMBDA n : <<Put(st, n, st[r]), n>>)

\* the loop of calculate_moving_averages over `windows`, on object r
RECURSIVE AddMAColumns(_, _, _, _)
AddMAColumns(st, r, windows, price_column) ==
    IF windows = <<>> THEN st
    ELSE With(Put(st, r, SetColumn(st[r], MAName(Head(windows)),
                                   RollingMean(st[r][price_column], Head(windows)))),
              LAMBDA s : AddMAColumns(s, r, Tail(windows), price_column))

\* calculate_moving_averages(df, windows, price_column): <<store, returned ref>>
calculate_moving_averages(st, df_ref, windows, price_column) ==
    With(DfCopy(st, df_ref),
         LAMBDA c : <<AddMAColumns(c[1], c[2], windows, price_column), c[2]>>)

(***************************************************************************)
(* plot_price_with_ma.  The figure is what the chart object is handed: the *)
(* candlestick's four series, one line per overlaid MA column, the y-axis  *)
(* title and the chart title.                                              *)
(***************************************************************************)
Colors == <<"blue", "orange", "purple">>

\* df_plot[col] = np.log10(df[col]), df being object src and df_plot object dst
LogColumn(st, src, dst, col) ==
    With(st, LAMBDA s : Put(s, dst, SetColumn(s[dst], col, Log10Series(s[src][col]))))

\* lines 106-108: the logarithm of each listed MA column the table has
RECURSIVE LogMAColumns(_, _, _, _)
LogMAColumns(st, src, dst, ma_columns) ==
    IF ma_columns = <<>> THEN st
    ELSE With(IF Head(ma_columns) \in DOMAIN st[src]
              THEN LogColumn(st, src, dst, Head(ma_columns))
              ELSE st,
              LAMBDA s : LogMAColumns(s, src, dst, Tail(ma_columns)))

\* a plot that takes the logarithm of the price column only
PlotFrameCloseOnly(st, df_ref, ma_columns, log_scale) ==
    IF log_scale
    THEN LET c == DfCopy(st, df_ref)
             p == c[2]
         IN  <<Put(c[1], p, SetColumn(c[1][p], "Close", Log10Series(c[1][df_ref]["Close"]))), p>>
    ELSE <<st, df_ref>>

\* lines 100-112: the object to plot, <<store, df_plot>>
PlotFrame(st, df_ref, ma_columns, log_scale) ==
    IF log_scale
    THEN With(DfCopy(st, df_ref), LAMBDA c :
            <<LogMAColumns(
                LogColumn(LogColumn(LogColumn(LogColumn(c[1], df_ref, c[2], "Open"),
                                              df_ref, c[2], "High"),
                                    df_ref, c[2], "Low"),
                          df_ref, c[2], "Close"),
                df_ref, c[2], ma_columns), c[2]>>)
    ELSE <<st, df_ref>>

\* lines 127-137: one Scatter per listed column the frame has
RECURSIVE MATraces(_, _, _)
MATraces(t, ma_columns, i) ==
    IF i > Len(ma_columns) THEN <<>>
    ELSE LET ma_col == ma_columns[i]
             rest == MATraces(t, ma_columns, i + 1)
         IN  IF ma_col \in DOMAIN t
             THEN <<[name |-> ma_col, y |-> t[ma_col],
                     color |-> Colors[((i - 1) % Len(Colors)) + 1]]>> \o rest
             ELSE rest

\* plot_price_with_ma(df, ticker, price_column, ma_columns, log_scale): <<store, fig>>
plot_price_with_ma(st, df_ref, ticker, ma_columns, log_scale) ==
    With(PlotFrame(st, df_ref, ma_columns, log_scale), LAMBDA f :
      With(f[1][f[2]], LAMBDA t :
        <<f[1],
          [candlestick |-> [open |-> t["Open"], high |-> t["High"],
                            low |-> t["Low"], close |-> t["Close"], name |-> ticker],
           traces      |-> MATraces(t, ma_columns, 1),
           yaxis_title |-> IF log_scale THEN "Price (log10 $)" ELSE "Price ($)",
           title       |-> [ticker |-> ticker, log_scale |-> log_scale]]>>))

NoFig == [candlestick |-> [open |-> <<>>, high |-> <<>>, low |-> <<>>, close |-> <<>>,
                           name |-> <<>>],
          traces |-> <<>>, yaxis_title |-> "", title |-> [ticker |-> <<>>, log_scale |-> FALSE]]

(***************************************************************************)
(* Strings are sequences of one-character strings; an Optional value is    *)
(* <<>> (None) or <<x>>.                                                   *)
(***************************************************************************)
None == <<>>

Some(x) == <<x>>

IsSpace(c) == c = " "

Upper(c) == IF c = "a" THEN "A" ELSE c

RECURSIVE LStrip(_)
LStrip(s) == IF s # <<>> /\ IsSpace(Head(s)) THEN LStrip(Tail(s)) ELSE s

RECURSIVE RStrip(_)
RStrip(s) ==
    IF s # <<>> /\ IsSpace(s[Len(s)]) THEN RStrip(SubSeq(s, 1, Len(s) - 1)) ELSE s

\* str.strip()
Strip(s) == RStrip(LStrip(s))

\* str.upper()
UpperStr(s) == [i \in 1..Len(s) |-> Upper(s[i])]

\* code point of a character of a formatted date
Ord(c) == IF c = "-" THEN 45 ELSE 48 + (CHOOSE d \in 0..9 : ToString(d) = c)

\* the decimal digits of n, zero-padded to `width`
RECURSIVE Digits(_, _)
Digits(n, width) ==
    IF width <= 1 /\ n < 10 THEN <<ToString(n)>>
    ELSE Digits(n \div 10, width - 1) \o <<ToString(n % 10)>>

\* strftime without zero padding ('%Y-%-m-%-d')
StrftimeNoPad(d) == Digits(d[1], 1) \o <<"-">> \o Digits(d[2], 1) \o <<"-">> \o Digits(d[3], 1)

\* date.strftime('%Y-%m-%d'); a date is <<year, month, day>>
Strftime(d) == Digits(d[1], 4) \o <<"-">> \o Digits(d[2], 2) \o <<"-">> \o Digits(d[3], 2)

\* str < str: lexicographic on code points
RECURSIVE StrLess(_, _)
StrLess(a, b) ==
    IF b = <<>> THEN FALSE
    ELSE IF a = <<>> THEN TRUE
    ELSE IF Ord(Head(a)) # Ord(Head(b)) THEN Ord(Head(a)) < Ord(Head(b))
    ELSE StrLess(Tail(a), Tail(b))

\* str >= str
StrGeq(a, b) == ~StrLess(a, b)

(***************************************************************************)
(* The inputs.                                                             *)
(***************************************************************************)
AllSeqs(S, n) == UNION {[1..k -> S] : k \in 0..n}

\* lists of distinct window sizes out of 1..n, as a multiselect returns them
WindowLists(n) ==
    {w \in AllSeqs(1..n, n) : \A i, j \in 1..Len(w) : i # j => w[i] # w[j]}

\* what is typed into the ticker box
TickerInputs == {<<>>, <<" ">>, <<" ", "a", " ">>}

\* what is picked in the window multiselect
AppWindowLists == {<<>>, <<2>>, <<2, 1>>}

Dates == {<<2024, 9, 30>>, <<2024, 10, 5>>}

DateInputs == {None} \cup {Some(d) : d \in Dates}

PeriodOptions == {"1y"}

IntervalOptions == {"1d"}

UpdateFrequencies == {10, 60}

\* one observation with Close = c; Low <= Open, Close <= High
PriceRow(c) == [Open |-> Num(c + 1), High |-> Num(10 * c), Low |-> Num(1),
                Close |-> Num(c), Volume |-> Num(100 * c)]

\* the table whose Close column is `closes`
PriceTable(closes) ==
    [c \in BaseColumns |-> [i \in 1..Len(closes) |-> PriceRow(closes[i])[c]]]

\* what the provider may return to the application (the empty table included)
ProviderTables == {PriceTable(cl) : cl \in AllSeqs(1..2, MaxRows)}

\* the spec's own example, section 8
ExampleClose == <<1, 2, 3, 4, 5>>

ExampleWindows == <<3>>

\* what the pure functions are applied to: <<Close column, window list>>
LibInputs ==
    {<<cl, w>> : cl \in AllSeqs(1..MaxPrice, MaxLen), w \in WindowLists(MaxWindow)}
        \cup {<<ExampleClose, ExampleWindows>>}

(***************************************************************************)
(* StockConfig and the form.                                               *)
(***************************************************************************)
StockConfig(ticker, fetch_method, interval, ma_windows, log_scale, live_mode, update_frequency, period, start_date, end_date) ==
    [ticker |-> ticker, fetch_method |-> fetch_method, interval |-> interval,
     ma_windows |-> ma_windows, log_scale |-> log_scale, live_mode |-> live_mode,
     update_frequency |-> update_frequency, period |-> period,
     start_date |-> start_date, end_date |-> end_date]

NoConfig == StockConfig(<<>>, "", "", <<>>, FALSE, FALSE, 60, None, None, None)

NoForm == [ticker |-> <<>>, fetch_method |-> "", period |-> None,
           start_date |-> None, end_date |-> None]

\* lines 137-161: the config built from the submitted widgets
BuildConfig(ticker, fetch_method, period, start_date, end_date, interval, ma_windows, log_scale, live_mode, update_frequency) ==
    IF fetch_method = "Period"
    THEN StockConfig(UpperStr(Strip(ticker)), fetch_method, interval, ma_windows,
                     log_scale, live_mode, update_frequency, period, None, None)
    ELSE StockConfig(UpperStr(Strip(ticker)), fetch_method, interval, ma_windows,
                     log_scale, live_mode, update_frequency, None,
                     IF start_date # None THEN Some(Strftime(start_date[1])) ELSE None,
                     IF end_date # None THEN Some(Strftime(end_date[1])) ELSE None)

\* a validation chain whose range check is start > end
ValidationErrorStrict(cfg) ==
    IF cfg.ticker = <<>> THEN "invalid_ticker"
    ELSE IF cfg.fetch_method = "Date Range"
            /\ (cfg.start_date = None \/ cfg.end_date = None) THEN "missing_dates"
    ELSE IF cfg.fetch_method = "Date Range"
            /\ StrLess(cfg.end_date[1], cfg.start_date[1]) THEN "bad_range"
    ELSE ""

\* lines 169-174: the error the validation chain reports, "" when it passes
ValidationError(cfg) ==
    IF cfg.ticker = <<>> THEN "invalid_ticker"
    ELSE IF cfg.fetch_method = "Date Range"
            /\ (cfg.start_date = None \/ cfg.end_date = None) THEN "missing_dates"
    ELSE IF cfg.fetch_method = "Date Range"
            /\ StrGeq(cfg.start_date[1], cfg.end_date[1]) THEN "bad_range"
    ELSE ""

\* Python truthiness of an Optional[str]
Truthy(o) == o # None /\ o[1] # <<>>

NoDownload == [by |-> "", ticker |-> <<>>, start |-> None, end |-> None,
               period |-> None, interval |-> ""]

\* get_stock_data, lines 34-38: the yf.download call it makes
get_stock_data(ticker, start_date, end_date, period, interval) ==
    IF Truthy(start_date) /\ Truthy(end_date)
    THEN [by |-> "range", ticker |-> ticker, start |-> start_date, end |-> end_date,
          period |-> None, interval |-> interval]
    ELSE [by |-> "period", ticker |-> ticker, start |-> None, end |-> None,
          period |-> period, interval |-> interval]

\* the default of get_stock_data's period parameter
DefaultPeriod == Some("1mo")

\* lines 180-185 and 235-240: the call the application makes
FetchCall(cfg) ==
    IF cfg.fetch_method = "Period"
    THEN get_stock_data(cfg.ticker, None, None, cfg.period, cfg.interval)
    ELSE get_stock_data(cfg.ticker, cfg.start_date, cfg.end_date, DefaultPeriod,
                        cfg.interval)

\* [f'MA{w}' for w in config.ma_windows]
MAColumnNames(windows) == [i \in 1..Len(windows) |-> MAName(windows[i])]

\* lines 206-213 and 244-248: <<store, df_with_ma>> from the fetched object
ComputeStep(st, df_ref, windows) ==
    IF windows # <<>>
    THEN calculate_moving_averages(st, df_ref, windows, "Close")
    ELSE <<st, df_ref>>

\* DataFrame.tail(n)
DfTail(t, n) ==
    [c \in DOMAIN t |->
        IF Len(t[c]) <= n THEN t[c] ELSE SubSeq(t[c], Len(t[c]) - n + 1, Len(t[c]))]

PreviewRows == 20

NoTable == [c \in BaseColumns |-> <<>>]

Bump(n) == IF n < MaxCount THEN n + 1 ELSE n

(***************************************************************************)
(* State.                                                                  *)
(***************************************************************************)
VARIABLES
    pc,            \* where the script is
    form,          \* the submitted widget values (raw ticker, date objects)
    config,        \* the StockConfig
    store,         \* object id -> DataFrame
    df,            \* the name df: the fetched table
    df_with_ma,    \* the name df_with_ma: the table that is rendered
    ma_columns,    \* the name ma_columns
    update_count,  \* the loop counter (saturating)
    fig,           \* the figure last handed to st.plotly_chart
    preview,       \* the rows last handed to st.dataframe
    messages,      \* the st.error reports made so far
    download,      \* the last yf.download call
    plotted,       \* the table last handed to plot_price_with_ma
    last_good,     \* the last non-empty table a fetch returned
    tick_log,      \* what the current tick of the loop has done so far
    last_sleep,    \* the seconds of the last time.sleep
    nfetch, ncompute, nrender, nsleep   \* how often each step ran (saturating)

vars == <<pc, form, config, store, df, df_with_ma, ma_columns, update_count, fig,
          preview, messages, download, plotted, last_good, tick_log, last_sleep,
          nfetch, ncompute, nrender, nsleep>>

Init ==
    /\ pc = "form"
    /\ form = NoForm
    /\ config = NoConfig
    /\ store = << >>
    /\ df = NoRef
    /\ df_with_ma = NoRef
    /\ ma_columns = <<>>
    /\ update_count = 0
    /\ fig = NoFig
    /\ preview = NoTable
    /\ messages = {}
    /\ download = NoDownload
    /\ plotted = NoTable
    /\ last_good = NoTable
    /\ tick_log = <<>>
    /\ last_sleep = 0
    /\ nfetch = 0 /\ ncompute = 0 /\ nrender = 0 /\ nsleep = 0

(***************************************************************************)
(* src/app.py, lines 49-161: the form is filled in and submitted.          *)
(***************************************************************************)
Submit ==
    /\ pc = "form"
    /\ \E ticker \in TickerInputs, fetch_method \in {"Period", "Date Range"},
          sel_period \in PeriodOptions, sel_start \in DateInputs, sel_end \in DateInputs,
          interval \in IntervalOptions, ma_windows \in AppWindowLists,
          log_scale \in BOOLEAN, live_mode \in BOOLEAN,
          update_frequency \in UpdateFrequencies :
        LET period     == IF fetch_method = "Period" THEN Some(sel_period) ELSE None
            start_date == IF fetch_method = "Period" THEN None ELSE sel_start
            end_date   == IF fetch_method = "Period" THEN None ELSE sel_end
        IN  /\ form' = [ticker |-> ticker, fetch_method |-> fetch_method,
                        period |-> period, start_date |-> start_date,
                        end_date |-> end_date]
            /\ config' = BuildConfig(ticker, fetch_method, period, start_date, end_date,
                                     interval, ma_windows, log_scale, live_mode,
                                     update_frequency)
    /\ pc' = "validate"
    /\ UNCHANGED <<store, df, df_with_ma, ma_columns, update_count, fig, preview,
                   messages, download, plotted, last_good, tick_log, last_sleep,
                   nfetch, ncompute, nrender, nsleep>>

(***************************************************************************)
(* Lines 165-175: validation.                                              *)
(***************************************************************************)
Validate ==
    /\ pc = "validate"
    /\ IF ValidationError(config) # ""
       THEN /\ messages' = messages \cup {ValidationError(config)}
            /\ pc' = "done"
       ELSE /\ messages' = messages
            /\ pc' = "fetch"
    /\ UNCHANGED <<form, config, store, df, df_with_ma, ma_columns, update_count, fig,
                   preview, download, plotted, last_good, tick_log, last_sleep,
                   nfetch, ncompute, nrender, nsleep>>

\* an except clause that reports and falls through to the render
LoopContinueOnError == "render"

\* line 251: where the loop goes when a refresh fetch raises (break)
LoopExitOnError == "done"

\* a loop without the break of a submission that is not live
AfterRenderNoBreak(cfg) == "sleep"

\* lines 273-274: where the loop goes after a render
AfterRender(cfg) == IF ~cfg.live_mode THEN "done" ELSE "sleep"

\* a sleep of the form's default instead of the configured seconds
SleepSecondsDefault(cfg) == 60

\* line 283: the seconds time.sleep is given
SleepSeconds(cfg) == cfg.update_frequency

\* a refresh that recomputes whatever the fetch returned
RefreshStepUnguarded(st, df_ref, old_df_with_ma, windows) ==
    ComputeStep(st, df_ref, windows)

\* lines 242-248: <<store, df_with_ma>> after a refresh fetch returned object df_ref
RefreshStep(st, df_ref, old_df_with_ma, windows) ==
    IF ~IsEmpty(st[df_ref])
    THEN ComputeStep(st, df_ref, windows)
    ELSE <<st, old_df_with_ma>>

(***************************************************************************)
(* Lines 177-228 and 285-287: the initial fetch, its empty check, the      *)
(* moving averages and the placeholders.                                   *)
(***************************************************************************)
InitialFetch ==
    /\ pc = "fetch"
    /\ download' = FetchCall(config)
    /\ nfetch' = Bump(nfetch)
    /\ \/ \* get_stock_data raises: the outer except reports it
          /\ messages' = messages \cup {"error_occurred"}
          /\ pc' = "done"
          /\ UNCHANGED <<store, df, df_with_ma, ma_columns, update_count, ncompute,
                         tick_log, last_good>>
       \/ \E t \in ProviderTables :
            LET r  == NewRef(store)
                s1 == Put(store, r, t)
                c  == ComputeStep(s1, r, config.ma_windows)
            IN  /\ df' = r
                /\ IF IsEmpty(t)
                   THEN /\ messages' = messages \cup {"no_data"}
                        /\ store' = Collect(s1, {r, df_with_ma})
                        /\ pc' = "done"
                        /\ UNCHANGED <<df_with_ma, ma_columns, update_count, ncompute,
                                       tick_log, last_good>>
                   ELSE /\ messages' = messages
                        /\ df_with_ma' = c[2]
                        /\ store' = Collect(c[1], {r, c[2]})
                        /\ ma_columns' = IF config.ma_windows # <<>>
                                         THEN MAColumnNames(config.ma_windows)
                                         ELSE <<>>
                        /\ ncompute' = Bump(ncompute)
                        /\ update_count' = 0
                        /\ tick_log' = <<"fetch", "compute">>
                        /\ last_good' = t
                        /\ pc' = "loop"
    /\ UNCHANGED <<form, config, fig, preview, plotted, last_sleep, nrender, nsleep>>

(***************************************************************************)
(* Lines 229-251: the top of a loop iteration, with the refresh fetch of   *)
(* live mode.                                                              *)
(***************************************************************************)
LoopIteration ==
    /\ pc = "loop"
    /\ update_count' = Bump(update_count)
    /\ IF config.live_mode /\ update_count' > 1
       THEN /\ download' = FetchCall(config)
            /\ nfetch' = Bump(nfetch)
            /\ \/ \* get_stock_data raises: report and break
                  /\ messages' = messages \cup {"update_error"}
                  /\ pc' = LoopExitOnError
                  /\ tick_log' = <<"fetch">>
                  /\ UNCHANGED <<store, df, df_with_ma, ncompute, last_good>>
               \/ \E t \in ProviderTables :
                    LET r  == NewRef(store)
                        s1 == Put(store, r, t)
                        c  == RefreshStep(s1, r, df_with_ma, config.ma_windows)
                    IN  /\ df' = r
                        /\ df_with_ma' = c[2]
                        /\ store' = Collect(c[1], {r, c[2]})
                        /\ ncompute' = IF IsEmpty(t) THEN ncompute ELSE Bump(ncompute)
                        /\ tick_log' = IF IsEmpty(t) THEN <<"fetch">>
                                       ELSE <<"fetch", "compute">>
                        /\ last_good' = IF IsEmpty(t) THEN last_good ELSE t
                        /\ messages' = messages
                        /\ pc' = "render"
       ELSE /\ pc' = "render"
            /\ UNCHANGED <<store, df, df_with_ma, download, messages, nfetch, ncompute,
                           tick_log, last_good>>
    /\ UNCHANGED <<form, config, ma_columns, fig, preview, plotted, last_sleep,
                   nrender, nsleep>>

(***************************************************************************)
(* Lines 253-274: the chart and the data preview, and the break of a       *)
(* submission that is not live.                                            *)
(***************************************************************************)
Render ==
    /\ pc = "render"
    /\ \E p \in {plot_price_with_ma(store, df_with_ma, config.ticker, ma_columns,
                                   config.log_scale)} :
           /\ fig' = p[2]
           /\ store' = Collect(p[1], {df, df_with_ma})
           /\ preview' = DfTail(p[1][df_with_ma], PreviewRows)
    /\ plotted' = store[df_with_ma]
    /\ nrender' = Bump(nrender)
    /\ tick_log' = Append(tick_log, "render")
    /\ pc' = AfterRender(config)
    /\ UNCHANGED <<form, config, df, df_with_ma, ma_columns, update_count, messages,
                   download, last_good, last_sleep, nfetch, ncompute, nsleep>>

(***************************************************************************)
(* Lines 276-283: the status line and the sleep before the next tick.      *)
(***************************************************************************)
Sleep ==
    /\ pc = "sleep"
    /\ last_sleep' = SleepSeconds(config)
    /\ nsleep' = Bump(nsleep)
    /\ tick_log' = Append(tick_log, "sleep")
    /\ pc' = "loop"
    /\ UNCHANGED <<form, config, store, df, df_with_ma, ma_columns, update_count, fig,
                   preview, messages, download, plotted, last_good, nfetch, ncompute,
                   nrender>>

Next == Submit \/ Validate \/ InitialFetch \/ LoopIteration \/ Render \/ Sleep

Spec == Init /\ [][Next]_vars

\* the script is one thread: once the form is submitted each statement that can run
\* does run (a submission is up to the viewer, and gets no fairness)
LiveSpec ==
    /\ Init /\ [][Next]_vars
    /\ WF_vars(Validate) /\ WF_vars(InitialFetch) /\ WF_vars(LoopIteration)
    /\ WF_vars(Render) /\ WF_vars(Sleep)

(***************************************************************************)
(* The two pure functions of src/src/utils.py applied to drawn inputs.     *)
(***************************************************************************)
LibInit ==
    /\ pc = "lib_ma"
    /\ form = NoForm
    /\ \E in \in LibInputs, log_scale \in BOOLEAN :
        /\ config = StockConfig(<<"A">>, "Period", "1d", in[2], log_scale, FALSE, 60,
                                Some("1y"), None, None)
        /\ store = (1 :> PriceTable(in[1]))
    /\ df = 1
    /\ df_with_ma = NoRef
    /\ ma_columns = <<>>
    /\ update_count = 0
    /\ fig = NoFig
    /\ preview = NoTable
    /\ messages = {}
    /\ download = NoDownload
    /\ plotted = NoTable
    /\ last_good = NoTable
    /\ tick_log = <<>>
    /\ last_sleep = 0
    /\ nfetch = 0 /\ ncompute = 0 /\ nrender = 0 /\ nsleep = 0

\* df_with_ma = calculate_moving_averages(df, windows, 'Close')
LibMA ==
    /\ pc = "lib_ma"
    /\ LET c == calculate_moving_averages(store, df, config.ma_windows, "Close")
       IN  /\ df_with_ma' = c[2]
           /\ store' = Collect(c[1], {df, c[2]})
    /\ ma_columns' = MAColumnNames(config.ma_windows)
    /\ ncompute' = Bump(ncompute)
    /\ pc' = "lib_plot"
    /\ UNCHANGED <<form, config, df, update_count, fig, preview, messages, download,
                   plotted, last_good, tick_log, last_sleep, nfetch, nrender, nsleep>>

\* fig = plot_price_with_ma(table, ticker, 'Close', ma_columns, log_scale), on the
\* augmented table or on the raw one (whose listed MA columns are absent)
LibPlot ==
    /\ pc = "lib_plot"
    /\ \E src \in {df, df_with_ma} :
        LET p == plot_price_with_ma(store, src, config.ticker, ma_columns,
                                    config.log_scale)
        IN  /\ fig' = p[2]
            /\ store' = Collect(p[1], {df, df_with_ma})
            /\ plotted' = store[src]
    /\ nrender' = Bump(nrender)
    /\ pc' = "lib_done"
    /\ UNCHANGED <<form, config, df, df_with_ma, ma_columns, update_count, preview,
                   messages, download, last_good, tick_log, last_sleep, nfetch,
                   ncompute, nsleep>>

LibNext == LibMA \/ LibPlot

LibSpec == LibInit /\ [][LibNext]_vars

(***************************************************************************)
(* Properties of the two pure functions, under LibSpec.                    *)
(***************************************************************************)
Max(a, b) == IF a > b THEN a ELSE b

\* the sum of the (integer) closes of rows lo..hi
RECURSIVE CloseSum(_, _, _)
CloseSum(closes, lo, hi) ==
    IF lo > hi THEN 0 ELSE closes[hi].num + CloseSum(closes, lo, hi - 1)

\* col is missing on rows 1..N-1 and the mean of the trailing N closes from row N on
IsTrailingMean(col, closes, N) ==
    /\ Len(col) = Len(closes)
    /\ \A i \in 1..Len(col) :
        IF i < N THEN IsMissing(col[i])
        ELSE /\ col[i].k = "rat"
             /\ col[i].den > 0
             /\ col[i].num * N = col[i].den * CloseSum(closes, i - N + 1, i)

MAApplied == pc \in {"lib_plot", "lib_done"}

\* C1: for a table of length L and each window N given to calculate_moving_averages,
\* column MA_N of the result has exactly max(0, L-N+1) non-missing values, rows
\* 1..N-1 are missing and every row i >= N holds the mean of Close over rows
\* i-N+1..i; Close = [1,2,3,4,5] with N = 3 gives [_,_,2,3,4].
C1_MovingAverage ==
    MAApplied =>
        LET t == store[df_with_ma]
            closes == store[df]["Close"]
            L == Len(closes)
        IN  /\ \A k \in 1..Len(config.ma_windows) :
                LET N == config.ma_windows[k]
                IN  /\ MAName(N) \in DOMAIN t
                    /\ IsTrailingMean(t[MAName(N)], closes, N)
                    /\ Cardinality({i \in 1..L : ~IsMissing(t[MAName(N)][i])})
                          = Max(0, L - N + 1)
            /\ (closes = PriceTable(ExampleClose)["Close"] /\ config.ma_windows = <<3>>)
                  => t["MA3"] = <<NaN, NaN, Num(2), Num(3), Num(4)>>

C1_Witness ==
    /\ MAApplied
    /\ store[df]["Close"] = <<Num(1), Num(2), Num(3), Num(4), Num(5)>>
    /\ config.ma_windows = <<3>>
    /\ store[df_with_ma]["MA3"] = <<NaN, NaN, Num(2), Num(3), Num(4)>>

\* C3: calculate_moving_averages does not change its input: across the call the
\* input object keeps its columns and its values, the result is another object, and
\* the MA columns are on the result only.
C3_NonMutating ==
    [][(pc = "lib_ma" /\ pc' = "lib_plot") =>
          /\ df' = df
          /\ store'[df] = store[df]
          /\ DOMAIN store'[df] = BaseColumns
          /\ df_with_ma' # df
          /\ \A c \in BaseColumns : store'[df_with_ma'][c] = store[df][c]
          /\ DOMAIN store'[df_with_ma'] =
                BaseColumns \cup {MAName(config.ma_windows[k]) :
                                    k \in 1..Len(config.ma_windows)}]_vars

C3_Witness ==
    /\ pc = "lib_plot"
    /\ Len(config.ma_windows) = 2
    /\ NRows(store[df]) >= 3
    /\ DOMAIN store[df] = BaseColumns
    /\ df_with_ma # df
    /\ \A k \in 1..2 : MAName(config.ma_windows[k]) \in DOMAIN store[df_with_ma]

\* y is the base-10 logarithm of x
IsLog10Of(y, x) ==
    \/ IsMissing(x) /\ IsMissing(y)
    \/ /\ x.k = "rat" /\ x.num > 0
       /\ \/ /\ y.k = "rat" /\ y.den = 1
             /\ IF y.num >= 0 THEN x = Num(Pow10(y.num)) ELSE x = Rat(1, Pow10(-y.num))
          \/ /\ y.k = "log10" /\ y.num = x.num /\ y.den = x.den
             /\ ~(x.den = 1 /\ \E e \in 0..9 : Pow10(e) = x.num)
             /\ ~(x.num = 1 /\ \E e \in 0..9 : Pow10(e) = x.den)

SeriesIsLog10Of(ys, xs) ==
    Len(ys) = Len(xs) /\ \A i \in 1..Len(xs) : IsLog10Of(ys[i], xs[i])

\* the listed MA columns the table has, in the listed order
ListedPresent(t, cols) == LET Has(c) == c \in DOMAIN t IN SelectSeq(cols, Has)

\* C8: with the log-scale flag every series handed to the chart (Open, High, Low,
\* Close and each listed MA column) is the base-10 logarithm of the table's column
\* and the y-axis title says log10; without the flag every series is the table's
\* column unchanged.
C8_LogScale ==
    pc = "lib_done" =>
        LET t == plotted
            cs == fig.candlestick
            present == ListedPresent(t, ma_columns)
        IN  /\ Len(fig.traces) = Len(present)
            /\ \A i \in 1..Len(present) : fig.traces[i].name = present[i]
            /\ IF config.log_scale
               THEN /\ fig.yaxis_title = "Price (log10 $)"
                    /\ SeriesIsLog10Of(cs.open, t["Open"])
                    /\ SeriesIsLog10Of(cs.high, t["High"])
                    /\ SeriesIsLog10Of(cs.low, t["Low"])
                    /\ SeriesIsLog10Of(cs.close, t["Close"])
                    /\ \A i \in 1..Len(present) :
                          SeriesIsLog10Of(fig.traces[i].y, t[present[i]])
               ELSE /\ fig.yaxis_title = "Price ($)"
                    /\ cs.open = t["Open"] /\ cs.high = t["High"]
                    /\ cs.low = t["Low"] /\ cs.close = t["Close"]
                    /\ \A i \in 1..Len(present) : fig.traces[i].y = t[present[i]]

C8_Witness ==
    /\ pc = "lib_done"
    /\ config.log_scale
    /\ plotted["High"] = <<Num(10), Num(20)>>
    /\ fig.candlestick.high[1] = Num(1)
    /\ fig.candlestick.high[2].k = "log10"
    /\ Len(fig.traces) = 2
    /\ fig.traces[1].y[2].k = "log10"

(***************************************************************************)
(* Properties of the application, under Spec and LiveSpec.                 *)
(***************************************************************************)
\* the typed ticker is empty once trimmed
TrimmedEmpty(raw) == \A i \in 1..Len(raw) : raw[i] = " "

\* calendar order of two dates
DateLess(a, b) ==
    \/ a[1] < b[1]
    \/ a[1] = b[1] /\ a[2] < b[2]
    \/ a[1] = b[1] /\ a[2] = b[2] /\ a[3] < b[3]

MissingDate(f) ==
    f.fetch_method = "Date Range" /\ (f.start_date = None \/ f.end_date = None)

BadRange(f) ==
    /\ f.fetch_method = "Date Range"
    /\ f.start_date # None /\ f.end_date # None
    /\ ~DateLess(f.start_date[1], f.end_date[1])

InvalidSubmission(f) == TrimmedEmpty(f.ticker) \/ MissingDate(f) \/ BadRange(f)

ValidationMessages == {"invalid_ticker", "missing_dates", "bad_range"}

Validated == pc \notin {"form", "validate"}

\* C2: a submission with an empty ticker (after trimming), or in date-range mode with a
\* missing date or with start >= end, is rejected with an error message and no fetch
\* happens for it; a fetch happens only after all three checks passed.
C2_RejectedBeforeFetch ==
    /\ (Validated /\ InvalidSubmission(form)) =>
          /\ pc = "done"
          /\ messages \cap ValidationMessages # {}
          /\ nfetch = 0
          /\ download = NoDownload
    /\ (nfetch > 0 \/ download # NoDownload) =>
          /\ Validated
          /\ ~InvalidSubmission(form)
          /\ messages \cap ValidationMessages = {}

C2_Witness ==
    /\ pc = "done"
    /\ ~TrimmedEmpty(form.ticker)
    /\ form.fetch_method = "Date Range"
    /\ form.start_date # None /\ form.start_date = form.end_date
    /\ "bad_range" \in messages
    /\ nfetch = 0

\* C7: at every fetch exactly one of {period, date range} is active: in Period mode the
\* period is set and start/end are absent; in Date Range mode the period is absent and
\* start and end are present with start < end; the fetch uses the start/end pair
\* exactly when both are present and the period otherwise.
C7_OneFetchMode ==
    download # NoDownload =>
        /\ config.fetch_method \in {"Period", "Date Range"}
        /\ config.fetch_method = "Period" =>
              /\ config.period # None
              /\ config.start_date = None /\ config.end_date = None
        /\ config.fetch_method = "Date Range" =>
              /\ config.period = None
              /\ config.start_date # None /\ config.end_date # None
              /\ form.start_date # None /\ form.end_date # None
              /\ DateLess(form.start_date[1], form.end_date[1])
        /\ IF config.start_date # None /\ config.end_date # None
           THEN /\ download.by = "range"
                /\ download.start = config.start_date
                /\ download.end = config.end_date
                /\ download.period = None
           ELSE /\ download.by = "period"
                /\ download.period = config.period
                /\ download.start = None /\ download.end = None

C7_Witness ==
    /\ download.by = "range"
    /\ download.start = Some(<<"2", "0", "2", "4", "-", "0", "9", "-", "3", "0">>)
    /\ download.end = Some(<<"2", "0", "2", "4", "-", "1", "0", "-", "0", "5">>)
    /\ nfetch = 2
    /\ config.live_mode

\* C5: in live mode, once a refresh fetch has raised and the error is reported, the
\* loop is over: no further fetch, render, sleep or retry.
C5_ErrorEndsLoop ==
    "update_error" \in messages =>
        /\ pc = "done"
        /\ ~ENABLED Next
        /\ config.live_mode
        /\ tick_log = <<"fetch">>

C5_Witness ==
    /\ "update_error" \in messages
    /\ pc = "done"
    /\ nfetch = 2
    /\ nrender = 1
    /\ nsleep = 1

\* C6 (as claimed): whenever a fetch, the initial one or a refresh, returned an empty
\* table without raising, "no data found" is reported to the viewer, and not as a
\* fetch exception.
C6_EmptyFetchReported ==
    (df # NoRef /\ IsEmpty(store[df])) =>
        /\ "no_data" \in messages
        /\ "error_occurred" \notin messages

\* C9: without live mode, a valid submission whose initial fetch returns a non-empty
\* table performs exactly one fetch, one moving-average step and one render, never
\* sleeps, and the loop ends after that render.
C9_SinglePass ==
    (~config.live_mode /\ df # NoRef /\ ~IsEmpty(store[df])) =>
        /\ nfetch = 1
        /\ ncompute = 1
        /\ nsleep = 0
        /\ pc \in {"loop", "render", "done"}
        /\ nrender = (IF pc = "done" THEN 1 ELSE 0)
        /\ pc = "done" => ~ENABLED Next

C9_Witness ==
    /\ pc = "done"
    /\ ~config.live_mode
    /\ nfetch = 1 /\ ncompute = 1 /\ nrender = 1 /\ nsleep = 0
    /\ fig.candlestick.close # <<>>

\* t is `base` with one trailing-mean column per window
IsAugmented(t, base, windows) ==
    /\ DOMAIN t = BaseColumns \cup {MAName(windows[k]) : k \in 1..Len(windows)}
    /\ \A c \in BaseColumns : t[c] = base[c]
    /\ \A k \in 1..Len(windows) :
          IsTrailingMean(t[MAName(windows[k])], base["Close"], windows[k])

\* C10: in every render of the live loop the table handed to the chart is the
\* MA-augmented version of the most recent non-empty fetch result, with one MA column
\* per configured window; when a refresh returns an empty table the previously
\* rendered table is rendered again (df names the empty result, df_with_ma the stale
\* table) and the loop goes on to sleep and tick.
C10_RenderedTable ==
    /\ [](config.live_mode /\ pc = "sleep" =>
            /\ ~IsEmpty(plotted)
            /\ plotted = store[df_with_ma]
            /\ IsAugmented(plotted, last_good, config.ma_windows)
            /\ fig.candlestick.name = config.ticker
            /\ Len(fig.traces) = Len(config.ma_windows)
            /\ IsEmpty(store[df]) => df # df_with_ma)
    /\ [][(config.live_mode /\ pc = "render" /\ IsEmpty(store[df])) =>
            /\ plotted' = plotted
            /\ fig' = fig
            /\ df_with_ma' = df_with_ma
            /\ pc' = "sleep"]_vars

C10_Witness ==
    /\ config.live_mode
    /\ pc = "sleep"
    /\ IsEmpty(store[df])
    /\ nrender = 2
    /\ config.ma_windows = <<2, 1>>
    /\ NRows(plotted) = 2
    /\ plotted["MA2"][2].den = 2

FullTick == <<"fetch", "compute", "render", "sleep">>

TickDone == config.live_mode /\ pc = "loop" /\ update_count >= 1

====
